---- MODULE Spec2Model ----
(***************************************************************************)
(* State-machine model of the clipboard-history engine of "clipped"        *)
(* (src/main.js, with the presentation-layer callers of src/renderer.js).  *)
(*                                                                         *)
(* Text is a sequence of one-character strings.  Array indices received    *)
(* over IPC are the JavaScript (0-based) ones; the history itself is a     *)
(* TLA+ sequence, so JavaScript index i is element i + 1.                  *)
(***************************************************************************)
EXTENDS Integers, Sequences, FiniteSets, TLC

VARIABLES
    clipboardHistory,      \* this.clipboardHistory (newest first)
    storeHistory,          \* store key "clipboardHistory"
    lastClipboardContent,  \* this.lastClipboardContent
    lastImageDataURL,      \* this.lastImageDataURL
    osText,                \* text channel of the OS clipboard
    osImage,               \* image channel of the OS clipboard
    lastNow,               \* latest value returned by Date.now()
    windowVisible,         \* mainWindow.isVisible()
    wayland,               \* isWaylandSession() for this process
    lastActiveWindowId,    \* this.lastActiveWindowId
    pastes,                \* pasteItem promises not yet resolved
    storeHotkey,           \* store key "hotkey"
    registered,            \* accelerators globalShortcut holds for this process
    accelerators,          \* what the OS answers for each accelerator
    shortcutsSetUp,        \* initialize() has run setupGlobalShortcuts()
    toggleInProgress,      \* this.toggleInProgress
    positioning,           \* positionAtCursor calls whose callback is still to run
    cooldowns,             \* 500 ms timers of toggleWindow still to fire
    storeRecentEmojis,     \* store key "recentEmojis"
    isQuitting,            \* this.isQuitting
    clipboardWatcher,      \* the interval of this.clipboardWatcher is active
    exited,                \* the process has emitted will-quit and ended
    sent,                  \* webContents.send calls made by the last step
    reply,                 \* the last IPC call: handler, argument, return value
    added                  \* the addToHistory calls of the last step: how many
                           \* entries the filter removed and the slice dropped

\* the variables no history or poller operation assigns
pasteVars == <<wayland, lastActiveWindowId, pastes>>

hotkeyVars == <<storeHotkey, registered, accelerators, shortcutsSetUp>>

\* the variables of the hotkey toggle and of the emoji panel
uiVars == <<toggleInProgress, positioning, cooldowns, storeRecentEmojis>>

\* the variables of the application's life cycle
appVars == <<isQuitting, clipboardWatcher, exited>>

historyVars == <<clipboardHistory, storeHistory, lastClipboardContent,
                 lastImageDataURL, lastNow>>

vars == <<historyVars, osText, osImage, windowVisible, pasteVars, hotkeyVars,
          uiVars, appVars, sent, reply, added>>

----------------------------------------------------------------------------
(* Bounds of the model *)

\* store key "maxItems"; the shipped default is 50 (src/main.js:42), scaled down
MaxItems == 2

\* number of Date.now() readings after start-up that the model follows
MaxClock == 3

\* pasteItem promises that may be pending at the same time
MaxPastes == 2

\* positionAtCursor calls that may be waiting for xdotool at the same time
MaxPositioning == 2

\* length the recent-emoji list is cut to: slice(0, 20) in the handler
\* (src/main.js:267), scaled down
MaxRecentEmojis == 3

\* longest stored list given to the operations that only read the history
MaxStored == 3

----------------------------------------------------------------------------
(* Values *)

\* imageDataURL.length > 100
MinImageURLLength == 100

\* Date.now() at start-up: epoch milliseconds, far above any array length
StartTime == 1000

Min(a, b) == IF a <= b THEN a ELSE b

\* characters String.prototype.trim removes
Whitespace == {" ", "\n"}

\* texts another application may put on the clipboard (<<>> is "no text")
CopyTexts == { <<>>, <<" ">>, <<"a">>, <<"b">>, <<"c">> }

\* NativeImage: px names the bitmap, n is the length of its base64 PNG payload
EmptyImage == [px |-> "", n |-> 0]

CopyImages == { EmptyImage, [px |-> "P", n |-> 90], [px |-> "Q", n |-> 8] }

\* what a copy in another application leaves on the two channels: a text, an
\* image, or (a rich-content copy) both
CopyContents ==
    {<<t, EmptyImage>> : t \in CopyTexts}
        \cup {<<(<<>>), i>> : i \in CopyImages}
        \cup {<<(<<"a">>), [px |-> "P", n |-> 90]>>}

isEmpty(img) == img.n = 0

DataURLPrefix ==
    <<"d","a","t","a",":","i","m","a","g","e","/","p","n","g",";",
      "b","a","s","e","6","4",",">>

\* NativeImage.toDataURL: the prefix followed by the base64 payload
toDataURL(img) == DataURLPrefix \o [i \in 1..img.n |-> img.px]

\* nativeImage.createFromDataURL: the bitmap a data URL encodes (empty if none)
createFromDataURL(url) ==
    IF /\ Len(url) > Len(DataURLPrefix)
       /\ SubSeq(url, 1, Len(DataURLPrefix)) = DataURLPrefix
    THEN [px |-> url[Len(DataURLPrefix) + 1], n |-> Len(url) - Len(DataURLPrefix)]
    ELSE EmptyImage

\* String.prototype.trim
RECURSIVE trimStart(_)
trimStart(s) ==
    IF s # <<>> /\ Head(s) \in Whitespace THEN trimStart(Tail(s)) ELSE s

RECURSIVE trimEnd(_)
trimEnd(s) ==
    IF s # <<>> /\ s[Len(s)] \in Whitespace
    THEN trimEnd(SubSeq(s, 1, Len(s) - 1))
    ELSE s

trim(s) == trimEnd(trimStart(s))

\* the object literal built by the watcher for a captured value
NewItem(type, content, t) ==
    [type |-> type, content |-> content, timestamp |-> t,
     pinned |-> FALSE, id |-> t]

\* the message of webContents.send("clipboard-updated", history), with the
\* store as it is when the message leaves
Notification(history, persisted) ==
    [channel |-> "clipboard-updated", history |-> history, persisted |-> persisted]

NoItem == [type |-> "none", content |-> <<>>]

\* an IPC call or a redraw by the renderer: the handler, its argument (an index, an item, a hotkey or a
\* query, by handler) and the value it returned (a boolean or a list).  With it:
\*   log, callbacks  paste-item: the child processes that ran for it and the
\*                   calls of the chain's callback
\*   before, again   toggle-pin: the list the handler found, and whether the
\*                   call before it was the same call and returned true
\*   pinnedBefore    clear-history: the pinned entries the list held
\*   view            the list the renderer draws from the returned one
\*   emoji, emojis   the emoji handlers: the glyph passed, the list returned
Call(handler, ret) ==
    [handler |-> handler, index |-> -1, item |-> NoItem, hotkey |-> "",
     query |-> <<>>, ret |-> ret, result |-> <<>>, view |-> <<>>,
     log |-> <<>>, callbacks |-> 0, before |-> <<>>, again |-> FALSE,
     pinnedBefore |-> 0, emoji |-> "", emojis |-> <<>>]

NoCall == Call("none", FALSE)

----------------------------------------------------------------------------
(* History engine *)

\* the filter of addToHistory: entries whose content differs from the item's
dedupFilter(history, item) ==
    SelectSeq(history, LAMBDA e : e.content # item.content)

\* addToHistory without the filter: the new item is put in front of everything
addToHistoryNoFilter(history, item) ==
    LET unshifted == <<item>> \o history
    IN  SubSeq(unshifted, 1, Min(MaxItems, Len(unshifted)))

\* addToHistory with push in place of unshift
addToHistoryPush(history, item) ==
    LET pushed == dedupFilter(history, item) \o <<item>>
    IN  SubSeq(pushed, 1, Min(MaxItems, Len(pushed)))

\* addToHistory without the slice
addToHistoryNoSlice(history, item) == <<item>> \o dedupFilter(history, item)

\* addToHistory keeping, behind the new item, the oldest entries
addToHistoryEvictNewest(history, item) ==
    LET filtered == dedupFilter(history, item)
        room == Min(MaxItems - 1, Len(filtered))
    IN  <<item>> \o SubSeq(filtered, Len(filtered) - room + 1, Len(filtered))

\* addToHistory handing the pin of a removed duplicate on to the new item
addToHistoryKeepPin(history, item) ==
    LET wasPinned == \E i \in DOMAIN history :
                         history[i].content = item.content /\ history[i].pinned
        unshifted == <<[item EXCEPT !.pinned = wasPinned]>>
                         \o dedupFilter(history, item)
    IN  SubSeq(unshifted, 1, Min(MaxItems, Len(unshifted)))

\* addToHistory with a slice that never drops a pinned entry
addToHistorySparePinned(history, item) ==
    LET unshifted == <<item>> \o dedupFilter(history, item)
    IN  SelectSeq(unshifted,
                  LAMBDA e : \/ e.pinned
                             \/ \E i \in 1..Min(MaxItems, Len(unshifted)) :
                                    unshifted[i] = e)

\* addToHistory up to the size limit: filter by content, unshift, slice
addToHistoryList(history, item) ==
    LET unshifted == <<item>> \o dedupFilter(history, item)
    IN  SubSeq(unshifted, 1, Min(MaxItems, Len(unshifted)))

\* no notification at all
sendNothing(history, persisted) == <<>>

\* the notification sent ahead of saveHistory(): the store is still as the
\* operation found it
sendBeforeSave(history, persisted) == << Notification(history, storeHistory) >>

\* the notification at the end of addToHistory and clearHistory (mainWindow
\* exists and is not destroyed while the application runs)
sendUpdate(history, persisted) == << Notification(history, persisted) >>

\* number of pinned entries of a list
PinnedCount(history) ==
    Cardinality({i \in DOMAIN history : history[i].pinned})

\* what one addToHistory(item) call took out of the list
AddRecord(history, item) ==
    LET filtered == dedupFilter(history, item)
        result == addToHistoryList(history, item)
        kept == SelectSeq(history, LAMBDA e : \E k \in DOMAIN result : result[k] = e)
    IN  [removed |-> Len(history) - Len(filtered),
         removedPinned |-> PinnedCount(history) - PinnedCount(filtered),
         dropped |-> Len(filtered) - Len(kept),
         droppedPinned |-> PinnedCount(filtered) - PinnedCount(kept)]

\* clipboardHistory[index] is an entry
HasIndex(history, index) == index \in 0..(Len(history) - 1)

\* the assignment of a handler that pins without ever unpinning
pinList(history, index) == [history EXCEPT ![index + 1].pinned = TRUE]

\* the toggle-pin handler's assignment
togglePinList(history, index) ==
    [history EXCEPT ![index + 1].pinned = ~history[index + 1].pinned]

\* Array.prototype.splice(index, 1)
spliceList(history, index) ==
    SubSeq(history, 1, index) \o SubSeq(history, index + 2, Len(history))

----------------------------------------------------------------------------
(* Initial state: constructor, initialize(), startClipboardWatcher() *)

DefaultHotkey == "Super+V"

\* accelerators a user may ask for
HotkeyChoices == {"Super+V", "Alt+V", "CommandOrControl+Alt+V", "Ctrl+Alt+X"}

\* a history an earlier run left in the store: captured before this start-up,
\* newest first, one entry per content, a text with a quote in it
PersistedEntries ==
    << NewItem("image", toDataURL([px |-> "P", n |-> 90]), StartTime - 1),
       NewItem("text", <<"a", "'">>, StartTime - 2),
       NewItem("text", <<"b">>, StartTime - 3) >>

PersistedHistories ==
    { SubSeq(PersistedEntries, 1, n) : n \in 1..Min(MaxItems, Len(PersistedEntries)) }

\* a start-up in which the watcher takes no baseline from the clipboard
StartedWithNoBaseline(contents, histories) ==
    /\ \E c \in contents : osText = c[1] /\ osImage = c[2]
    /\ clipboardHistory \in histories
    /\ storeHistory = clipboardHistory
    /\ lastClipboardContent = <<>>
    /\ lastImageDataURL = <<>>
    /\ lastNow = StartTime
    /\ windowVisible = FALSE
    /\ lastActiveWindowId = "null"
    /\ pastes = <<>>
    /\ toggleInProgress = FALSE
    /\ positioning = 0
    /\ cooldowns = 0
    /\ storeRecentEmojis = <<>>
    /\ isQuitting = FALSE
    /\ clipboardWatcher = TRUE
    /\ exited = FALSE
    /\ sent = <<>>
    /\ reply = NoCall
    /\ added = <<>>

\* the constructor reads the history from the store, the watcher takes the
\* clipboard as its baseline
StartedWith(contents, histories) ==
    /\ \E c \in contents : osText = c[1] /\ osImage = c[2]
    /\ clipboardHistory \in histories
    /\ storeHistory = clipboardHistory
    /\ lastClipboardContent = osText
    /\ lastImageDataURL = IF isEmpty(osImage) THEN <<>> ELSE toDataURL(osImage)
    /\ lastNow = StartTime
    /\ windowVisible = FALSE
    /\ lastActiveWindowId = "null"
    /\ pastes = <<>>
    /\ toggleInProgress = FALSE
    /\ positioning = 0
    /\ cooldowns = 0
    /\ storeRecentEmojis = <<>>
    /\ isQuitting = FALSE
    /\ clipboardWatcher = TRUE
    /\ exited = FALSE
    /\ sent = <<>>
    /\ reply = NoCall
    /\ added = <<>>

\* setupGlobalShortcuts() found the default hotkey free and bound it
HotkeyBound ==
    /\ storeHotkey = DefaultHotkey
    /\ registered = {DefaultHotkey}
    /\ accelerators = [h \in HotkeyChoices |-> "free"]
    /\ shortcutsSetUp = TRUE

\* contents of stored entries: letters of both cases, and an image
StoredContents ==
    { <<"a", "B">>, <<"A", "b", "c">>, <<"c">>, toDataURL([px |-> "P", n |-> 90]) }

\* the entry the watcher built for a content, t milliseconds before start-up
StoredItem(content, t) ==
    NewItem(IF content = toDataURL(createFromDataURL(content)) THEN "image"
            ELSE "text",
            content, StartTime - t)

\* histories an earlier run left in the store: newest first, one entry per
\* content, in any order of contents and with any entries pinned
StoredLists ==
    UNION { { [k \in 1..n |-> [StoredItem(c[k], k) EXCEPT !.pinned = pin[k]]] :
                c \in {d \in [1..n -> StoredContents] :
                          \A i, j \in 1..n : d[i] = d[j] => i = j},
                pin \in [1..n -> BOOLEAN] } :
            n \in 0..MaxStored }

\* first run: empty store
Started(contents) == StartedWith(contents, { <<>> })

\* the history engine does not read the session type: one session stands for both
Init == Started(CopyContents) /\ HotkeyBound /\ wayland = FALSE

\* the injector's commands depend on the session type
InitPaste == Started(CopyContents) /\ HotkeyBound /\ wayland \in BOOLEAN

----------------------------------------------------------------------------
(* Environment *)

\* another application puts new content on the OS clipboard
ExternalCopy ==
    \E c \in CopyContents :
        /\ c # <<osText, osImage>>
        /\ osText' = c[1]
        /\ osImage' = c[2]
        /\ sent' = <<>>
        /\ reply' = NoCall
        /\ added' = <<>>
        /\ UNCHANGED <<historyVars, windowVisible, pasteVars, hotkeyVars,
                       uiVars, appVars>>

----------------------------------------------------------------------------
(* Clipboard poller: one run of the setInterval callback *)

\* a text branch that compares the clipboard text to the newest entry
textAdmittedAgainstHistory ==
    /\ osText # <<>>
    /\ Len(trim(osText)) > 0
    /\ IF clipboardHistory = <<>> THEN TRUE
       ELSE clipboardHistory[1].content # osText

\* the text branch without its comparison to the last-seen text
textAdmittedNoBaseline ==
    /\ osText # <<>>
    /\ Len(trim(osText)) > 0

\* the text branch without its trim() test
textAdmittedNoTrim ==
    /\ osText # <<>>
    /\ osText # lastClipboardContent

\* the text branch admits the current clipboard text
textAdmitted ==
    /\ osText # <<>>
    /\ osText # lastClipboardContent
    /\ Len(trim(osText)) > 0

\* the image branch as an else of the text branch
imageAdmittedUnlessText ==
    /\ ~textAdmitted
    /\ ~isEmpty(osImage)
    /\ toDataURL(osImage) # lastImageDataURL
    /\ Len(toDataURL(osImage)) > MinImageURLLength

\* the image branch admits the current clipboard image
imageAdmitted ==
    /\ ~isEmpty(osImage)
    /\ toDataURL(osImage) # lastImageDataURL
    /\ Len(toDataURL(osImage)) > MinImageURLLength

\* Date.now() is read once per admitted entry: a later tick reads a later
\* millisecond, two readings of one tick may fall in the same millisecond
Tick ==
    \E tText \in {lastNow + 1}, tImage \in {lastNow + 1, lastNow + 2} :
        LET textItem == NewItem("text", osText, tText)
            imageItem == NewItem("image", toDataURL(osImage), tImage)
            afterText ==
                IF textAdmitted
                THEN addToHistoryList(clipboardHistory, textItem)
                ELSE clipboardHistory
            afterImage ==
                IF imageAdmitted
                THEN addToHistoryList(afterText, imageItem)
                ELSE afterText
            reading ==
                IF imageAdmitted THEN tImage
                ELSE IF textAdmitted THEN tText ELSE lastNow
        IN  /\ clipboardWatcher
            /\ (textAdmitted /\ imageAdmitted) \/ tImage = tText
            /\ reading <= StartTime + MaxClock
            /\ clipboardHistory' = afterImage
            /\ storeHistory' =
                   IF textAdmitted \/ imageAdmitted THEN afterImage
                   ELSE storeHistory
            /\ lastClipboardContent' =
                   IF textAdmitted THEN osText ELSE lastClipboardContent
            /\ lastImageDataURL' =
                   IF imageAdmitted THEN toDataURL(osImage) ELSE lastImageDataURL
            /\ lastNow' = reading
            /\ sent' =
                   (IF textAdmitted THEN sendUpdate(afterText, afterText)
                    ELSE <<>>)
                   \o (IF imageAdmitted THEN sendUpdate(afterImage, afterImage)
                       ELSE <<>>)
            /\ added' =
                   (IF textAdmitted
                    THEN <<AddRecord(clipboardHistory, textItem)>> ELSE <<>>)
                   \o (IF imageAdmitted
                       THEN <<AddRecord(afterText, imageItem)>> ELSE <<>>)
            /\ reply' = NoCall
            /\ UNCHANGED <<osText, osImage, windowVisible, pasteVars, hotkeyVars,
                           uiVars, appVars>>

\* One run of the setInterval callback in which a read of the OS clipboard
\* fails. The callback has no try/catch. A failed readText() either throws,
\* which ends the callback there, or returns "", which skips the text branch;
\* a failed readImage() throws or returns an empty image after the text
\* branch has run. The interval stays scheduled in every case.
TickReadFails ==
    \E failed \in {"text", "image"}, thrown \in BOOLEAN :
        LET runsText == failed = "image" /\ textAdmitted
            runsImage == failed = "text" /\ ~thrown /\ imageAdmitted
            item == IF runsText THEN NewItem("text", osText, lastNow + 1)
                    ELSE NewItem("image", toDataURL(osImage), lastNow + 1)
            runs == runsText \/ runsImage
            after == IF runs THEN addToHistoryList(clipboardHistory, item)
                     ELSE clipboardHistory
            reading == IF runs THEN lastNow + 1 ELSE lastNow
        IN  /\ clipboardWatcher
            /\ reading <= StartTime + MaxClock
            /\ clipboardHistory' = after
            /\ storeHistory' = IF runs THEN after ELSE storeHistory
            /\ lastClipboardContent' =
                   IF runsText THEN osText ELSE lastClipboardContent
            /\ lastImageDataURL' =
                   IF runsImage THEN toDataURL(osImage) ELSE lastImageDataURL
            /\ lastNow' = reading
            /\ sent' = IF runs THEN sendUpdate(after, after) ELSE <<>>
            /\ added' = IF runs THEN <<AddRecord(clipboardHistory, item)>>
                        ELSE <<>>
            /\ reply' = Call("clipboard-watcher", FALSE)
            /\ UNCHANGED <<osText, osImage, windowVisible, pasteVars,
                           hotkeyVars, uiVars, appVars>>

----------------------------------------------------------------------------
(* IPC handlers of the history engine *)

\* a toggle-pin handler that does not call saveHistory()
togglePinNoSave(index) ==
    /\ IF HasIndex(clipboardHistory, index)
       THEN /\ clipboardHistory' = togglePinList(clipboardHistory, index)
            /\ UNCHANGED storeHistory
            /\ reply' = [Call("toggle-pin", TRUE) EXCEPT
                             !.index = index,
                             !.before = clipboardHistory,
                             !.again = /\ reply.handler = "toggle-pin"
                                       /\ reply.ret
                                       /\ reply.index = index]
       ELSE /\ UNCHANGED <<clipboardHistory, storeHistory>>
            /\ reply' = [Call("toggle-pin", FALSE) EXCEPT
                             !.index = index,
                             !.before = clipboardHistory]
    /\ sent' = <<>>
    /\ added' = <<>>
    /\ UNCHANGED <<lastClipboardContent, lastImageDataURL, lastNow, osText,
                   osImage, windowVisible, pasteVars, hotkeyVars,
                   uiVars, appVars>>

\* ipcMain.handle("toggle-pin", (event, index) => ...)
togglePinHandler(index) ==
    /\ IF HasIndex(clipboardHistory, index)
       THEN /\ clipboardHistory' = togglePinList(clipboardHistory, index)
            /\ storeHistory' = clipboardHistory'
            /\ reply' = [Call("toggle-pin", TRUE) EXCEPT
                             !.index = index,
                             !.before = clipboardHistory,
                             !.again = /\ reply.handler = "toggle-pin"
                                       /\ reply.ret
                                       /\ reply.index = index]
       ELSE /\ UNCHANGED <<clipboardHistory, storeHistory>>
            /\ reply' = [Call("toggle-pin", FALSE) EXCEPT
                             !.index = index,
                             !.before = clipboardHistory]
    /\ sent' = <<>>
    /\ added' = <<>>
    /\ UNCHANGED <<lastClipboardContent, lastImageDataURL, lastNow, osText,
                   osImage, windowVisible, pasteVars, hotkeyVars,
                   uiVars, appVars>>

\* a delete-item handler that reports success whatever it found
deleteItemOptimistic(index) ==
    /\ IF HasIndex(clipboardHistory, index)
       THEN /\ clipboardHistory' = spliceList(clipboardHistory, index)
            /\ storeHistory' = clipboardHistory'
       ELSE UNCHANGED <<clipboardHistory, storeHistory>>
    /\ reply' = [Call("delete-item", TRUE) EXCEPT !.index = index]
    /\ sent' = <<>>
    /\ added' = <<>>
    /\ UNCHANGED <<lastClipboardContent, lastImageDataURL, lastNow, osText,
                   osImage, windowVisible, pasteVars, hotkeyVars,
                   uiVars, appVars>>

\* ipcMain.handle("delete-item", (event, index) => ...)
deleteItemHandler(index) ==
    /\ IF HasIndex(clipboardHistory, index)
       THEN /\ clipboardHistory' = spliceList(clipboardHistory, index)
            /\ storeHistory' = clipboardHistory'
            /\ reply' = [Call("delete-item", TRUE) EXCEPT !.index = index]
       ELSE /\ UNCHANGED <<clipboardHistory, storeHistory>>
            /\ reply' = [Call("delete-item", FALSE) EXCEPT !.index = index]
    /\ sent' = <<>>
    /\ added' = <<>>
    /\ UNCHANGED <<lastClipboardContent, lastImageDataURL, lastNow, osText,
                   osImage, windowVisible, pasteVars, hotkeyVars,
                   uiVars, appVars>>

\* the handlers called with an array position (one past the largest included)
IpcTogglePin == \E index \in 0..MaxItems : togglePinHandler(index)

IpcDeleteItem == \E index \in 0..MaxItems : deleteItemHandler(index)

\* renderer.js: the Pin/Unpin option of a displayed entry passes item.id
RendererTogglePin ==
    \E i \in DOMAIN clipboardHistory : togglePinHandler(clipboardHistory[i].id)

\* renderer.js: the Delete option of a displayed entry passes item.id
RendererDeleteItem ==
    \E i \in DOMAIN clipboardHistory : deleteItemHandler(clipboardHistory[i].id)

\* a clearHistory that spares the pinned entries
clearHistoryKeepPinned(history) == SelectSeq(history, LAMBDA e : e.pinned)

\* the list clearHistory() assigns: a new empty array
clearHistoryList(history) == <<>>

\* clearHistory(): the clear-history handler and the tray's "Clear History"
ClearHistory ==
    /\ clipboardHistory' = clearHistoryList(clipboardHistory)
    /\ storeHistory' = clipboardHistory'
    /\ sent' = sendUpdate(clipboardHistory', storeHistory')
    /\ reply' = [Call("clear-history", TRUE) EXCEPT
                     !.pinnedBefore = PinnedCount(clipboardHistory)]
    /\ added' = <<>>
    /\ UNCHANGED <<lastClipboardContent, lastImageDataURL, lastNow, osText,
                   osImage, windowVisible, pasteVars, hotkeyVars,
                   uiVars, appVars>>

----------------------------------------------------------------------------
(* Search and display *)

\* search strings the picker may send ("" is the empty search box)
Queries ==
    { <<>>, <<"a">>, <<"A">>, <<"a", "b">>, <<"B", "C">>, <<"c">>, <<"z">>,
      <<"p", "n", "g">> }

\* String.prototype.toLowerCase on the letters the model uses
toLowerChar(c) ==
    CASE c = "A" -> "a"
      [] c = "B" -> "b"
      [] c = "C" -> "c"
      [] c = "P" -> "p"
      [] OTHER -> c

toLowerCase(str) == [i \in 1..Len(str) |-> toLowerChar(str[i])]

\* String.prototype.includes
includes(str, search) ==
    \E i \in 0..(Len(str) - Len(search)) :
        SubSeq(str, i + 1, i + Len(search)) = search

\* the search-history handler comparing the strings as they are
searchHistoryCaseSensitive(history, query) ==
    IF query = <<>> THEN history
    ELSE SelectSeq(history, LAMBDA item : includes(item.content, query))

\* the value the search-history handler returns
searchHistory(history, query) ==
    IF query = <<>> THEN history
    ELSE SelectSeq(history,
                   LAMBDA item : includes(toLowerCase(item.content),
                                          toLowerCase(query)))

\* ipcMain.handle("search-history", (event, query) => ...)
searchHistoryHandler(query) ==
    /\ reply' = [Call("search-history", TRUE) EXCEPT
                     !.query = query,
                     !.result = searchHistory(clipboardHistory, query)]
    /\ sent' = <<>>
    /\ added' = <<>>
    /\ UNCHANGED <<historyVars, osText, osImage, windowVisible, pasteVars,
                   hotkeyVars,
                   uiVars, appVars>>

SearchHistory == \E query \in Queries : searchHistoryHandler(query)

\* a comparator that never asks for a swap
comparePinnedNoSwap(a, b) == IF a.pinned /\ ~b.pinned THEN -1 ELSE 0

\* the comparator renderClipboardHistory sorts with
comparePinned(a, b) ==
    IF a.pinned /\ ~b.pinned THEN -1
    ELSE IF ~a.pinned /\ b.pinned THEN 1
    ELSE 0

\* Array.prototype.sort(comparePinned), a stable sort: each element goes
\* behind the last one that does not have to come after it
RECURSIVE insertSorted(_, _)
insertSorted(sorted, x) ==
    IF sorted # <<>> /\ comparePinned(sorted[Len(sorted)], x) > 0
    THEN Append(insertSorted(SubSeq(sorted, 1, Len(sorted) - 1), x),
                sorted[Len(sorted)])
    ELSE Append(sorted, x)

RECURSIVE sortPinnedFirst(_)
sortPinnedFirst(list) ==
    IF list = <<>> THEN <<>>
    ELSE insertSorted(sortPinnedFirst(SubSeq(list, 1, Len(list) - 1)),
                      list[Len(list)])

\* renderer.js renderClipboardHistory(): the loaded history, or the answer of
\* search-history when the search box is not empty, sorted for display
RenderHistory ==
    \E query \in Queries :
        LET filteredHistory ==
                IF query # <<>> THEN searchHistory(clipboardHistory, query)
                ELSE clipboardHistory
        IN  /\ reply' = [Call("renderClipboardHistory", TRUE) EXCEPT
                             !.query = query,
                             !.result = filteredHistory,
                             !.view = sortPinnedFirst(filteredHistory)]
            /\ sent' = <<>>
            /\ added' = <<>>
            /\ UNCHANGED <<historyVars, osText, osImage, windowVisible,
                           pasteVars, hotkeyVars,
                           uiVars, appVars>>

----------------------------------------------------------------------------
(* Paste injector *)

\* a replace that leaves embedded quotes as they are
escapeQuotesNone(str) == str

\* shellEscape(str): single-quoted shell literal, each ' written as '\''
RECURSIVE escapeQuotes(_)
escapeQuotes(str) ==
    IF str = <<>> THEN <<>>
    ELSE IF Len(str) = 1
    THEN (IF str[1] = "'" THEN <<"'", "\\", "'", "'">> ELSE str)
    ELSE LET half == Len(str) \div 2
         IN  escapeQuotes(SubSeq(str, 1, half))
                 \o escapeQuotes(SubSeq(str, half + 1, Len(str)))

shellEscape(str) == <<"'">> \o escapeQuotes(str) \o <<"'">>

\* the command list of runPasteSequence without its tests of the item's type
pasteCommandsAnyType(item, isWayland) ==
    IF isWayland
    THEN <<  <<"wtype -M ctrl v -m ctrl">>,
             <<"wtype --delay 1 ">> \o shellEscape(item.content)  >>
    ELSE <<  <<"xdotool key --clearmodifiers ctrl+v">>,
             <<"xdotool type --clearmodifiers --delay 1 ">>
                 \o shellEscape(item.content),
             <<"xclip -selection clipboard -o | xdotool type --clearmodifiers --file -">> >>

\* the command list runPasteSequence builds: each command is its fixed words
\* followed by the characters interpolated into it
pasteCommands(item, isWayland) ==
    IF isWayland
    THEN <<  <<"wtype -M ctrl v -m ctrl">>  >>
         \o (IF item.type # "image"
             THEN << <<"wtype --delay 1 ">> \o shellEscape(item.content) >>
             ELSE <<>>)
    ELSE <<  <<"xdotool key --clearmodifiers ctrl+v">>  >>
         \o (IF item.type # "image"
             THEN << <<"xdotool type --clearmodifiers --delay 1 ">>
                        \o shellEscape(item.content),
                     <<"xclip -selection clipboard -o | xdotool type --clearmodifiers --file -">> >>
             ELSE <<>>)

\* a sequence without its k-th element
RemoveAt(seq, k) == SubSeq(seq, 1, k - 1) \o SubSeq(seq, k + 1, Len(seq))

\* a show that notes the window that had the focus before the picker
ShowPickerRemembersWindow ==
    /\ ~windowVisible
    /\ windowVisible' = TRUE
    /\ lastActiveWindowId' = "w1"
    /\ sent' = <<>>
    /\ reply' = NoCall
    /\ added' = <<>>
    /\ UNCHANGED <<historyVars, osText, osImage, wayland, pastes, hotkeyVars,
                   uiVars, appVars>>

\* mainWindow.show() has completed: the picker is on screen
ShowPicker ==
    /\ ~windowVisible
    /\ windowVisible' = TRUE
    /\ sent' = <<>>
    /\ reply' = NoCall
    /\ added' = <<>>
    /\ UNCHANGED <<historyVars, osText, osImage, pasteVars, hotkeyVars,
                   uiVars, appVars>>

\* pasteItem running runPasteSequence in the same turn, without setTimeout
pasteItemStartNoDelay(item, handler) ==
    /\ IF item.type = "image"
       THEN /\ osImage' = createFromDataURL(item.content)
            /\ osText' = <<>>
       ELSE /\ osText' = item.content
            /\ osImage' = EmptyImage
    /\ windowVisible' = FALSE
    /\ pastes' = Append(pastes, [handler |-> handler,
                                 item |-> [type |-> item.type,
                                           content |-> item.content],
                                 pc |-> "exec",
                                 commands |-> pasteCommands(item, wayland),
                                 log |-> <<>>, callbacks |-> 0])
    /\ sent' = <<>>
    /\ reply' = NoCall
    /\ added' = <<>>
    /\ UNCHANGED <<historyVars, wayland, lastActiveWindowId, hotkeyVars,
                   uiVars, appVars>>

\* pasteItem(item) up to the return of the promise: stage, hide, arm the timer
pasteItemStart(item, handler) ==
    /\ IF item.type = "image"
       THEN /\ osImage' = createFromDataURL(item.content)
            /\ osText' = <<>>
       ELSE /\ osText' = item.content
            /\ osImage' = EmptyImage
    /\ windowVisible' = FALSE
    /\ pastes' = Append(pastes, [handler |-> handler,
                                 item |-> [type |-> item.type,
                                           content |-> item.content],
                                 pc |-> "timer", commands |-> <<>>,
                                 log |-> <<>>, callbacks |-> 0])
    /\ sent' = <<>>
    /\ reply' = NoCall
    /\ added' = <<>>
    /\ UNCHANGED <<historyVars, wayland, lastActiveWindowId, hotkeyVars,
                   uiVars, appVars>>

\* renderer.js: a click on a displayed entry invokes paste-item with it
RendererPasteItem ==
    /\ windowVisible
    /\ Len(pastes) < MaxPastes
    /\ \E i \in DOMAIN clipboardHistory :
           pasteItemStart(clipboardHistory[i], "paste-item")

\* the same click while no paste is pending
RendererPasteAlone == pastes = <<>> /\ RendererPasteItem

\* the setTimeout(..., delayMs) callback of pasteItem
PasteTimer ==
    \E k \in DOMAIN pastes :
        /\ pastes[k].pc = "timer"
        /\ pastes' =
               IF ~wayland /\ lastActiveWindowId # "null"
               THEN [pastes EXCEPT ![k].pc = "activate"]
               ELSE [pastes EXCEPT ![k].pc = "exec",
                                   ![k].commands =
                                       pasteCommands(pastes[k].item, wayland)]
        /\ sent' = <<>>
        /\ reply' = NoCall
        /\ added' = <<>>
        /\ UNCHANGED <<historyVars, osText, osImage, windowVisible, wayland,
                       lastActiveWindowId, hotkeyVars,
                       uiVars, appVars>>

\* the exec callback of tryCommandsSequentially, continuing after a success
tryCommandsNoShortCircuit(commands, err) ==
    IF Len(commands) = 1
    THEN [calls |-> 1, error |-> err, rest |-> <<>>]
    ELSE [calls |-> 0, error |-> FALSE, rest |-> Tail(commands)]

\* the exec callback of tryCommandsSequentially([cmd, ...rest], cb) when cmd
\* exits: the calls of cb it makes, cb's error argument, and the list it
\* recurses on (exec of its first command), empty if it does not
tryCommandsCallback(commands, err) ==
    IF ~err THEN [calls |-> 1, error |-> FALSE, rest |-> <<>>]
    ELSE IF Len(Tail(commands)) = 0
    THEN [calls |-> 1, error |-> TRUE, rest |-> <<>>]
    ELSE [calls |-> 0, error |-> FALSE, rest |-> Tail(commands)]

\* the promise settling on an error of the chain
pasteResolvesOnSuccessOnly(error) == ~error

\* the callback pasteItem hands to tryCommandsSequentially ignores its
\* arguments: resolve(true)
pasteResolves(error) == TRUE

\* a child process started by exec ends and its callback runs: the callback of
\* the window activation, or the one of tryCommandsSequentially
ExecExit ==
    \E k \in DOMAIN pastes, err \in BOOLEAN :
        /\ pastes[k].pc \in {"activate", "exec"}
        /\ IF pastes[k].pc = "activate"
           THEN /\ pastes' = [pastes EXCEPT ![k].pc = "exec",
                                            ![k].commands =
                                                pasteCommands(pastes[k].item, wayland)]
                /\ reply' = NoCall
                /\ UNCHANGED lastActiveWindowId
           ELSE LET r == tryCommandsCallback(pastes[k].commands, err)
                    p == [pastes[k] EXCEPT
                             !.log = Append(@, [cmd |-> Head(pastes[k].commands),
                                                err |-> err]),
                             !.commands = r.rest,
                             !.callbacks = @ + r.calls]
                IN  /\ pastes' = IF r.rest = <<>> THEN RemoveAt(pastes, k)
                                 ELSE [pastes EXCEPT ![k] = p]
                    /\ IF r.calls > 0
                       THEN /\ lastActiveWindowId' = "null"
                            /\ reply' = [Call(p.handler, pasteResolves(r.error))
                                            EXCEPT !.item = p.item,
                                                   !.log = p.log,
                                                   !.callbacks = p.callbacks]
                       ELSE /\ reply' = NoCall
                            /\ UNCHANGED lastActiveWindowId
        /\ sent' = <<>>
        /\ added' = <<>>
        /\ UNCHANGED <<historyVars, osText, osImage, windowVisible, wayland,
                       hotkeyVars,
                       uiVars, appVars>>

----------------------------------------------------------------------------
(* Picker window: hotkey toggle, tray, focus *)

\* showWindow(): positionAtCursor(() => { show(); focus() }).  Under Wayland
\* positionAtCursor calls back before it returns; under X11 it calls back from
\* the exit of the xdotool processes it starts
showWindow ==
    IF wayland
    THEN /\ windowVisible' = TRUE
         /\ UNCHANGED positioning
    ELSE /\ positioning < MaxPositioning
         /\ positioning' = positioning + 1
         /\ UNCHANGED windowVisible

\* toggleWindow() whose hide branch does not reset the flag
toggleWindowHideKeepsFlag ==
    IF windowVisible
    THEN /\ windowVisible' = FALSE
         /\ toggleInProgress' = TRUE
         /\ UNCHANGED <<positioning, cooldowns>>
    ELSE /\ showWindow
         /\ toggleInProgress' = TRUE
         /\ cooldowns' = cooldowns + 1

\* toggleWindow() past its debounce test
toggleWindowBody ==
    IF windowVisible
    THEN /\ windowVisible' = FALSE
         /\ toggleInProgress' = FALSE
         /\ UNCHANGED <<positioning, cooldowns>>
    ELSE /\ showWindow
         /\ toggleInProgress' = TRUE
         /\ cooldowns' = cooldowns + 1

\* toggleWindow() without the debounce test
ToggleWindowNoDebounce ==
    /\ toggleWindowBody
    /\ reply' = Call("toggleWindow", TRUE)
    /\ sent' = <<>>
    /\ added' = <<>>
    /\ UNCHANGED <<historyVars, osText, osImage, pasteVars, hotkeyVars,
                   storeRecentEmojis, appVars>>

\* toggleWindow(): the hotkey is pressed or the tray icon clicked; the value
\* noted for the call tells whether it got past the debounce test
ToggleWindow ==
    /\ IF toggleInProgress
       THEN /\ UNCHANGED <<windowVisible, toggleInProgress, positioning, cooldowns>>
            /\ reply' = Call("toggleWindow", FALSE)
       ELSE /\ toggleWindowBody
            /\ reply' = Call("toggleWindow", TRUE)
    /\ sent' = <<>>
    /\ added' = <<>>
    /\ UNCHANGED <<historyVars, osText, osImage, pasteVars, hotkeyVars,
                   storeRecentEmojis, appVars>>

\* the tray's "Show Clipped": showWindow() without the debounce
TrayShow ==
    /\ showWindow
    /\ sent' = <<>>
    /\ reply' = NoCall
    /\ added' = <<>>
    /\ UNCHANGED <<historyVars, osText, osImage, pasteVars, hotkeyVars,
                   toggleInProgress, cooldowns, storeRecentEmojis, appVars>>

\* the callback showWindow() gave positionAtCursor runs: show and focus
PositionDone ==
    /\ positioning > 0
    /\ positioning' = positioning - 1
    /\ windowVisible' = TRUE
    /\ sent' = <<>>
    /\ reply' = NoCall
    /\ added' = <<>>
    /\ UNCHANGED <<historyVars, osText, osImage, pasteVars, hotkeyVars,
                   toggleInProgress, cooldowns, storeRecentEmojis, appVars>>

\* the 500 ms timer toggleWindow() armed fires
CooldownExpires ==
    /\ cooldowns > 0
    /\ cooldowns' = cooldowns - 1
    /\ toggleInProgress' = FALSE
    /\ sent' = <<>>
    /\ reply' = NoCall
    /\ added' = <<>>
    /\ UNCHANGED <<historyVars, osText, osImage, windowVisible, pasteVars,
                   hotkeyVars, positioning, storeRecentEmojis, appVars>>

\* the window's blur handler: the user clicked elsewhere, hideWindow()
Blur ==
    /\ windowVisible
    /\ windowVisible' = FALSE
    /\ sent' = <<>>
    /\ reply' = NoCall
    /\ added' = <<>>
    /\ UNCHANGED <<historyVars, osText, osImage, pasteVars, hotkeyVars, uiVars,
                   appVars>>

\* ipcMain.handle("hide-window", ...)
HideWindow ==
    /\ windowVisible' = FALSE
    /\ sent' = <<>>
    /\ reply' = Call("hide-window", TRUE)
    /\ added' = <<>>
    /\ UNCHANGED <<historyVars, osText, osImage, pasteVars, hotkeyVars, uiVars,
                   appVars>>

----------------------------------------------------------------------------
(* Handlers that stage content, and the emoji panel *)

\* a copy-text handler that also records the text as a new entry
copyTextAndRecord(text) ==
    /\ osText' = text
    /\ osImage' = EmptyImage
    /\ windowVisible' = FALSE
    /\ clipboardHistory' =
           addToHistoryList(clipboardHistory, NewItem("text", text, lastNow))
    /\ storeHistory' = clipboardHistory'
    /\ reply' = [Call("copy-text", TRUE) EXCEPT
                     !.item = [type |-> "text", content |-> text]]
    /\ sent' = <<>>
    /\ added' = <<>>
    /\ UNCHANGED <<lastClipboardContent, lastImageDataURL, lastNow, pasteVars,
                   hotkeyVars, uiVars, appVars>>

\* ipcMain.handle("copy-text", (event, text) => ...)
copyTextHandler(text) ==
    /\ osText' = text
    /\ osImage' = EmptyImage
    /\ windowVisible' = FALSE
    /\ reply' = [Call("copy-text", TRUE) EXCEPT
                     !.item = [type |-> "text", content |-> text]]
    /\ sent' = <<>>
    /\ added' = <<>>
    /\ UNCHANGED <<historyVars, pasteVars, hotkeyVars, uiVars, appVars>>

\* ipcMain.handle("copy-image", (event, dataURL) => ...)
copyImageHandler(dataURL) ==
    /\ osImage' = createFromDataURL(dataURL)
    /\ osText' = <<>>
    /\ windowVisible' = FALSE
    /\ reply' = [Call("copy-image", TRUE) EXCEPT
                     !.item = [type |-> "image", content |-> dataURL]]
    /\ sent' = <<>>
    /\ added' = <<>>
    /\ UNCHANGED <<historyVars, pasteVars, hotkeyVars, uiVars, appVars>>

\* renderer.js copyItem(): the entry's content goes to copy-image or copy-text
RendererCopyItem ==
    \E i \in DOMAIN clipboardHistory :
        IF clipboardHistory[i].type = "image"
        THEN copyImageHandler(clipboardHistory[i].content)
        ELSE copyTextHandler(clipboardHistory[i].content)

\* ipcMain.handle("get-clipboard-history", ...)
GetClipboardHistory ==
    /\ reply' = [Call("get-clipboard-history", TRUE) EXCEPT
                     !.result = clipboardHistory]
    /\ sent' = <<>>
    /\ added' = <<>>
    /\ UNCHANGED <<historyVars, osText, osImage, windowVisible, pasteVars,
                   hotkeyVars, uiVars, appVars>>

\* ipcMain.handle("paste-text", ...): pasteTextNatively(text) is pasteItem of
\* a text item; the renderer passes the text of an entry
RendererPasteText ==
    /\ pastes = <<>>
    /\ \E i \in DOMAIN clipboardHistory :
           /\ clipboardHistory[i].type = "text"
           /\ pasteItemStart([type |-> "text",
                              content |-> clipboardHistory[i].content],
                             "paste-text")

\* glyphs of the emoji panel
Emojis == {"e1", "e2", "e3", "e4", "e5"}

\* add-recent-emoji without its filter
addRecentEmojiNoFilter(recentEmojis, emoji) ==
    LET unshifted == <<emoji>> \o recentEmojis
    IN  SubSeq(unshifted, 1, Min(MaxRecentEmojis, Len(unshifted)))

\* the list add-recent-emoji stores: filter, unshift, slice
addRecentEmojiList(recentEmojis, emoji) ==
    LET unshifted == <<emoji>> \o SelectSeq(recentEmojis, LAMBDA e : e # emoji)
    IN  SubSeq(unshifted, 1, Min(MaxRecentEmojis, Len(unshifted)))

\* ipcMain.handle("add-recent-emoji", (event, emoji) => ...)
addRecentEmojiHandler(emoji) ==
    /\ storeRecentEmojis' = addRecentEmojiList(storeRecentEmojis, emoji)
    /\ reply' = [Call("add-recent-emoji", TRUE) EXCEPT
                     !.emoji = emoji,
                     !.emojis = storeRecentEmojis']
    /\ sent' = <<>>
    /\ added' = <<>>
    /\ UNCHANGED <<historyVars, osText, osImage, windowVisible, pasteVars,
                   hotkeyVars, toggleInProgress, positioning, cooldowns,
                   appVars>>

AddRecentEmoji == \E emoji \in Emojis : addRecentEmojiHandler(emoji)

\* the same call by a user who keeps to two glyphs
AddFrequentEmoji == \E emoji \in {"e1", "e2"} : addRecentEmojiHandler(emoji)

\* ipcMain.handle("get-recent-emojis", ...)
GetRecentEmojis ==
    /\ reply' = [Call("get-recent-emojis", TRUE) EXCEPT
                     !.emojis = storeRecentEmojis]
    /\ sent' = <<>>
    /\ added' = <<>>
    /\ UNCHANGED <<historyVars, osText, osImage, windowVisible, pasteVars,
                   hotkeyVars, uiVars, appVars>>

----------------------------------------------------------------------------
(* Hotkey registration *)

\* the fallbacks of setupGlobalShortcuts, in the order they are tried
Fallbacks == <<"Super+V", "Alt+V", "CommandOrControl+Alt+V">>

\* globalShortcut.register(h, ...) by what the OS answers for h:
\*   "free"    it binds h and returns true
\*   "taken"   it returns false (the combination belongs to another process)
\*   "invalid" it throws
registerThrows(h) == accelerators[h] = "invalid"

registerBinds(reg, h) == IF accelerators[h] = "free" THEN reg \cup {h} ELSE reg

\* the for loop over the fallbacks: the first one whose register() returns
\* without throwing is stored
RECURSIVE tryFallbacks(_, _, _, _)
tryFallbacks(list, primary, stored, reg) ==
    IF list = <<>> THEN [stored |-> stored, reg |-> reg]
    ELSE IF Head(list) # primary /\ ~registerThrows(Head(list))
    THEN [stored |-> Head(list), reg |-> registerBinds(reg, Head(list))]
    ELSE tryFallbacks(Tail(list), primary, stored, reg)

\* setupGlobalShortcuts() from the given store value and registrations
setupGlobalShortcuts(stored, reg) ==
    IF ~registerThrows(stored)
    THEN [stored |-> stored, reg |-> registerBinds(reg, stored)]
    ELSE tryFallbacks(Fallbacks, stored, stored, reg)

\* initialize(): the one call of setupGlobalShortcuts() at start-up
SetupGlobalShortcuts ==
    /\ ~shortcutsSetUp
    /\ LET r == setupGlobalShortcuts(storeHotkey, registered)
       IN  /\ storeHotkey' = r.stored
           /\ registered' = r.reg
    /\ shortcutsSetUp' = TRUE
    /\ sent' = <<>>
    /\ reply' = NoCall
    /\ added' = <<>>
    /\ UNCHANGED <<historyVars, osText, osImage, windowVisible, pasteVars,
                   accelerators,
                   uiVars, appVars>>

\* ipcMain.handle("set-hotkey", (event, hotkeyString) => ...): unregisterAll,
\* store.set, register; the catch block runs setupGlobalShortcuts()
setHotkeyResult(hotkeyString) ==
    IF ~registerThrows(hotkeyString)
    THEN [stored |-> hotkeyString, reg |-> registerBinds({}, hotkeyString),
          ret |-> TRUE]
    ELSE LET r == setupGlobalShortcuts(hotkeyString, {})
         IN  [stored |-> r.stored, reg |-> r.reg, ret |-> TRUE]

setHotkeyHandler(hotkeyString) ==
    /\ shortcutsSetUp
    /\ LET r == setHotkeyResult(hotkeyString)
       IN  /\ storeHotkey' = r.stored
           /\ registered' = r.reg
           /\ reply' = [Call("set-hotkey", r.ret) EXCEPT !.hotkey = hotkeyString]
    /\ sent' = <<>>
    /\ added' = <<>>
    /\ UNCHANGED <<historyVars, osText, osImage, windowVisible, pasteVars,
                   accelerators, shortcutsSetUp,
                   uiVars, appVars>>

SetHotkey == \E hotkeyString \in HotkeyChoices : setHotkeyHandler(hotkeyString)

\* ipcMain.handle("get-current-hotkey", ...)
GetCurrentHotkey ==
    /\ shortcutsSetUp
    /\ reply' = [Call("get-current-hotkey", TRUE) EXCEPT !.hotkey = storeHotkey]
    /\ sent' = <<>>
    /\ added' = <<>>
    /\ UNCHANGED <<historyVars, osText, osImage, windowVisible, pasteVars,
                   hotkeyVars,
                   uiVars, appVars>>

\* start-up with any persisted hotkey and any answer of the OS per accelerator
InitHotkey ==
    /\ Started({<<(<<>>), EmptyImage>>})
    /\ wayland = FALSE
    /\ storeHotkey \in HotkeyChoices
    /\ registered = {}
    /\ accelerators \in [HotkeyChoices -> {"free", "taken", "invalid"}]
    /\ shortcutsSetUp = FALSE

----------------------------------------------------------------------------
(* Shutdown *)

\* a before-quit handler that leaves the interval running
beforeQuitKeepsWatcher == clipboardWatcher

\* the interval after the before-quit handler: clearInterval(clipboardWatcher)
beforeQuitWatcher == FALSE

\* app.on("before-quit", ...): emitted by app.quit(), which the tray's Quit
\* calls through quitApp() after setting isQuitting itself
BeforeQuit ==
    /\ ~exited
    /\ isQuitting' = TRUE
    /\ clipboardWatcher' = beforeQuitWatcher
    /\ sent' = <<>>
    /\ reply' = Call("before-quit", TRUE)
    /\ added' = <<>>
    /\ UNCHANGED <<historyVars, osText, osImage, windowVisible, pasteVars,
                   hotkeyVars, uiVars, exited>>

\* app.on("will-quit", ...): the windows are closed, which the close handler
\* allows once isQuitting is set; globalShortcut.unregisterAll(), then the
\* process ends
WillQuit ==
    /\ isQuitting
    /\ ~exited
    /\ registered' = {}
    /\ exited' = TRUE
    /\ sent' = <<>>
    /\ reply' = Call("will-quit", TRUE)
    /\ added' = <<>>
    /\ UNCHANGED <<historyVars, osText, osImage, windowVisible, pasteVars,
                   storeHotkey, accelerators, shortcutsSetUp, uiVars,
                   isQuitting, clipboardWatcher>>

----------------------------------------------------------------------------
(* Specifications *)

\* History engine and poller.  The injector is left out of this one: it never
\* assigns the history, and what it writes to the OS clipboard (the content of
\* an entry on one channel, nothing on the other) is among the values
\* ExternalCopy already produces.
Next ==
    \/ ExternalCopy
    \/ Tick
    \/ IpcTogglePin
    \/ IpcDeleteItem
    \/ RendererTogglePin
    \/ RendererDeleteItem
    \/ ClearHistory

Spec == Init /\ [][Next]_vars

\* Injector with the poller
NextPaste ==
    \/ ExternalCopy
    \/ ShowPicker
    \/ Tick
    \/ RendererPasteAlone
    \/ PasteTimer
    \/ ExecExit

SpecPaste == InitPaste /\ [][NextPaste]_vars

\* Injector alone, started on a persisted history: the picker is shown and its
\* entries are clicked, also while earlier pastes are pending
InitInject ==
    /\ StartedWith({<<(<<>>), EmptyImage>>}, PersistedHistories)
    /\ HotkeyBound
    /\ wayland \in BOOLEAN

NextInject ==
    \/ ShowPicker
    \/ RendererPasteItem
    \/ PasteTimer
    \/ ExecExit

SpecInject == InitInject /\ [][NextInject]_vars

\* The injector when the event loop runs every timer that is due and every
\* child process it started comes to an end
SpecInjectFair == SpecInject /\ WF_vars(PasteTimer) /\ WF_vars(ExecExit)

\* Search and display of a stored history
InitView ==
    /\ StartedWith({<<(<<>>), EmptyImage>>}, StoredLists)
    /\ HotkeyBound
    /\ wayland = FALSE

NextView ==
    \/ SearchHistory
    \/ RenderHistory

SpecView == InitView /\ [][NextView]_vars

\* Picker window on a persisted history: the hotkey, the tray, focus changes
\* and the handlers that hide it
NextToggle ==
    \/ ToggleWindow
    \/ TrayShow
    \/ PositionDone
    \/ CooldownExpires
    \/ Blur
    \/ HideWindow
    \/ RendererCopyItem

SpecToggle == InitInject /\ [][NextToggle]_vars

\* The picker window when the event loop runs every timer that is due
SpecToggleFair == SpecToggle /\ WF_vars(CooldownExpires)

\* The picker driven by the hotkey alone: every show sequence is one that
\* toggleWindow started
NextPress ==
    \/ ToggleWindow
    \/ PositionDone
    \/ CooldownExpires
    \/ Blur
    \/ HideWindow
    \/ RendererCopyItem

SpecPress == InitInject /\ [][NextPress]_vars

\* The handlers outside the history engine, called on a persisted history,
\* one paste at a time
NextFrame ==
    \/ ShowPicker
    \/ HideWindow
    \/ RendererCopyItem
    \/ GetClipboardHistory
    \/ SearchHistory
    \/ RendererPasteAlone
    \/ RendererPasteText
    \/ PasteTimer
    \/ ExecExit
    \/ AddFrequentEmoji

SpecFrame == InitInject /\ [][NextFrame]_vars

\* Emoji panel
InitEmoji ==
    /\ Started({<<(<<>>), EmptyImage>>})
    /\ HotkeyBound
    /\ wayland = FALSE

NextEmoji ==
    \/ AddRecentEmoji
    \/ GetRecentEmojis

SpecEmoji == InitEmoji /\ [][NextEmoji]_vars

\* Hotkey registration and the hotkey handlers
NextHotkey ==
    \/ SetupGlobalShortcuts
    \/ SetHotkey
    \/ GetCurrentHotkey

SpecHotkey == InitHotkey /\ [][NextHotkey]_vars

\* The watcher from start-up to shutdown: copies in other applications, ticks
\* with and without read failures, a handler of the history, the quit events
NextLife ==
    \/ ExternalCopy
    \/ Tick
    \/ TickReadFails
    \/ ClearHistory
    \/ BeforeQuit
    \/ WillQuit

SpecLife == Init /\ [][NextLife]_vars

----------------------------------------------------------------------------
(* Properties *)

\* e is an element of the list
In(e, history) == \E k \in DOMAIN history : history[k] = e

\* entries present in both lists are in the same relative order in both
KeepOrder(before, after) ==
    \A i, j \in DOMAIN before :
        i < j => \A k, l \in DOMAIN after :
                     (before[i] = after[k] /\ before[j] = after[l]) => k < l

UnpinnedCount(history) ==
    Cardinality({i \in DOMAIN history : ~history[i].pinned})

\* The addToHistory calls of a poller step, read from the notification each
\* call sends: the list before the call, the content added, the list after.
TickAdds ==
    [k \in DOMAIN sent' |->
        [before |-> IF k = 1 THEN clipboardHistory ELSE sent'[k - 1].history,
         content |-> IF k = Len(sent') /\ imageAdmitted
                     THEN toDataURL(osImage) ELSE osText,
         after |-> sent'[k].history]]

\* the OS clipboard holds what pasteItem(item) staged
Staged(item) ==
    IF item.type = "image"
    THEN osImage = createFromDataURL(item.content) /\ osText = <<>>
    ELSE osText = item.content /\ osImage = EmptyImage

\* C1: in every reachable state the history holds at most one entry per
\* content value, whatever mix of addToHistory, toggle-pin, delete-item and
\* clear-history led there.
C1_OneEntryPerContent ==
    \A i, j \in DOMAIN clipboardHistory :
        clipboardHistory[i].content = clipboardHistory[j].content => i = j

\* a full list right after an addToHistory whose filter removed the old entry
C1_Witness ==
    /\ Len(clipboardHistory) = MaxItems
    /\ \E k \in DOMAIN added : added[k].removed > 0

\* C2: a poller tick that runs right after paste-item resolved for an entry
\* of the history, the clipboard still holding what the paste staged, leaves
\* the history unchanged.
C2_PasteNotRecaptured ==
    [][(/\ reply.handler = "paste-item"
        /\ reply.ret
        /\ Staged(reply.item)
        /\ \E i \in DOMAIN clipboardHistory :
               clipboardHistory[i].content = reply.item.content
        /\ Tick)
       => clipboardHistory' = clipboardHistory]_vars

\* C3: every entry that is pinned before an addToHistory call and whose
\* content differs from the added one is still in the list after the call.
C3_PinnedSurviveAdd ==
    [][(added' # <<>> /\ Tick) =>
        LET adds == TickAdds
        IN  \A k \in DOMAIN adds :
                \A i \in DOMAIN adds[k].before :
                    LET e == adds[k].before[i]
                    IN  (e.pinned /\ e.content # adds[k].content)
                            => In(e, adds[k].after)]_vars

\* C4: toggle-pin called with the id of a displayed entry flips the pinned
\* flag of the entry with that id and changes nothing else in the list.
C4_TogglePinById ==
    [][\A i \in DOMAIN clipboardHistory :
          togglePinHandler(clipboardHistory[i].id)
              => clipboardHistory' = togglePinList(clipboardHistory, i - 1)]_vars

\* C5: delete-item called with the id of a displayed entry removes the entry
\* with that id, keeps the others in order, and returns true.
C5_DeleteItemById ==
    [][\A i \in DOMAIN clipboardHistory :
          deleteItemHandler(clipboardHistory[i].id)
              => /\ clipboardHistory' = spliceList(clipboardHistory, i - 1)
                 /\ reply'.ret = TRUE]_vars

C7_UnpinnedBounded ==
    added # <<>> => UnpinnedCount(clipboardHistory) <= MaxItems

\* an addToHistory call that had to drop an entry leaves maxItems unpinned ones
C7_Witness ==
    /\ added # <<>>
    /\ added[Len(added)].dropped > 0
    /\ UnpinnedCount(clipboardHistory) = MaxItems

\* C8: when no entry is pinned, an addToHistory call keeps, behind the new
\* entry, the newest maxItems - 1 of the other entries and drops the rest,
\* the oldest ones.
C8_OldestDropped ==
    [][(added' # <<>> /\ Tick) =>
        LET adds == TickAdds
        IN  \A k \in DOMAIN adds :
                LET before == adds[k].before
                    after == adds[k].after
                    others == {i \in DOMAIN before :
                                  before[i].content # adds[k].content}
                    newer(i) == Cardinality({j \in others : j < i})
                IN  PinnedCount(before) = 0 =>
                        \A i \in others :
                            In(before[i], after) <=> newer(i) < MaxItems - 1]_vars

\* a list without pins after an addToHistory call that dropped its oldest entry
C8_Witness ==
    /\ Len(added) = 1
    /\ added[1].dropped = 1
    /\ added[1].droppedPinned = 0
    /\ added[1].removedPinned = 0
    /\ PinnedCount(clipboardHistory) = 0
    /\ Len(clipboardHistory) = MaxItems

C10_FailedSetHotkeyKeepsStore ==
    [][\A h \in HotkeyChoices :
          (setHotkeyHandler(h) /\ accelerators[h] # "free")
              => (storeHotkey' = storeHotkey /\ reply'.ret = FALSE)]_vars

\* C11: every entry of the history has an id different from the id of every
\* other entry, also after a tick in which both channels admitted an entry.
C11_UniqueIds ==
    \A i, j \in DOMAIN clipboardHistory :
        clipboardHistory[i].id = clipboardHistory[j].id => i = j

\* the commands of a log of child processes, in the order they were started
LogCommands(log) == [i \in DOMAIN log |-> log[i].cmd]

\* C12: the chain runs the commands in list order (those that have exited,
\* then the running one, then the ones not started, make up the list), a
\* command is started only after all before it exited with a failure, none
\* is started after one that succeeded, and the callback is called once, by
\* the exit that ends the chain.
C12_ChainInOrderOneCallback ==
    /\ \A k \in DOMAIN pastes :
           pastes[k].pc = "exec" =>
               /\ pastes[k].commands # <<>>
               /\ LogCommands(pastes[k].log) \o pastes[k].commands
                      = pasteCommands(pastes[k].item, wayland)
               /\ \A i \in DOMAIN pastes[k].log : pastes[k].log[i].err
               /\ pastes[k].callbacks = 0
    /\ reply.handler = "paste-item" =>
           LET list == pasteCommands(reply.item, wayland)
               n == Len(reply.log)
           IN  /\ n \in 1..Len(list)
               /\ LogCommands(reply.log) = SubSeq(list, 1, n)
               /\ \A i \in 1..(n - 1) : reply.log[i].err
               /\ reply.log[n].err => n = Len(list)
               /\ reply.callbacks = 1

\* a chain of three commands ended by the success of the second one
C12_Witness ==
    /\ reply.handler = "paste-item"
    /\ Len(pasteCommands(reply.item, wayland)) = 3
    /\ Len(reply.log) = 2
    /\ reply.log[1].err
    /\ ~reply.log[2].err
    /\ reply.callbacks = 1

\* C13: pasteItem never settles with anything but true, whether a command
\* succeeded or all of them failed, and when timers fire and child processes
\* end, a paste in flight is followed by a paste resolving.
C13_PasteAlwaysResolvesTrue ==
    /\ [](reply.handler = "paste-item" => reply.ret)
    /\ (pastes # <<>>) ~> (reply.handler = "paste-item" /\ reply.ret)

\* a paste resolved after every command of a three-command chain failed
C13_Witness ==
    /\ reply.handler = "paste-item"
    /\ reply.ret
    /\ Len(reply.log) = 3
    /\ \A i \in DOMAIN reply.log : reply.log[i].err

\* what a command of the chain does, told from the program it runs
CommandKind(cmd) ==
    IF cmd \in { <<"wtype -M ctrl v -m ctrl">>,
                 <<"xdotool key --clearmodifiers ctrl+v">> }
    THEN "keychord"
    ELSE IF Head(cmd) \in { "wtype --delay 1 ",
                            "xdotool type --clearmodifiers --delay 1 " }
    THEN "type-text"
    ELSE IF Head(cmd) = "xclip -selection clipboard -o | xdotool type --clearmodifiers --file -"
    THEN "clipboard-readback-type"
    ELSE "other"

\* C14: the chain built for an image item is the paste keychord alone in
\* both session types; for a text item it is keychord, type-text under
\* Wayland and keychord, type-text, clipboard-readback-type under X11.
C14_ChainByTypeAndSession ==
    \A k \in DOMAIN pastes :
        pastes[k].pc = "exec" =>
            LET chain == LogCommands(pastes[k].log) \o pastes[k].commands
                kinds == [i \in DOMAIN chain |-> CommandKind(chain[i])]
            IN  kinds = IF pastes[k].item.type = "image" THEN <<"keychord">>
                        ELSE IF wayland THEN <<"keychord", "type-text">>
                        ELSE <<"keychord", "type-text", "clipboard-readback-type">>

\* the chain of an image and the chain of a text, both built and running
C14_Witness ==
    \E k, l \in DOMAIN pastes :
        /\ pastes[k].pc = "exec"
        /\ pastes[k].item.type = "image"
        /\ pastes[l].pc = "exec"
        /\ pastes[l].item.type = "text"
        /\ Len(pastes[l].commands) > 1

\* C15: while a paste is in flight (staged, not yet resolved) no other
\* pasteItem stages its content on the OS clipboard: a step that starts a
\* paste is taken only when none is pending.
C15_PastesSerialized ==
    [][\A i \in DOMAIN clipboardHistory :
          pasteItemStart(clipboardHistory[i], "paste-item") => pastes = <<>>]_vars

\* C16: after clear-history the history is empty, whatever it held before
\* (pinned entries too), and so is the persisted clipboardHistory.
C16_ClearEmptiesAll ==
    reply.handler = "clear-history"
        => (clipboardHistory = <<>> /\ storeHistory = <<>>)

\* clear-history has run on a list that held a pinned entry
C16_Witness ==
    /\ reply.handler = "clear-history"
    /\ reply.pinnedBefore > 0
    /\ clipboardHistory = <<>>
    /\ storeHistory = <<>>

\* C17: a toggle-pin that follows, with nothing in between, a toggle-pin of
\* the same existing entry returns true and leaves the list (and the store)
\* exactly as it was before the first of the two: the entry's pinned flag is
\* back, every other field and entry is as before.
C17_TogglePinTwiceRestores ==
    [][(/\ reply.handler = "toggle-pin"
        /\ reply.ret
        /\ togglePinHandler(reply.index))
       => /\ reply'.ret
          /\ clipboardHistory' = reply.before
          /\ storeHistory' = reply.before]_vars

\* two toggle-pin calls in a row for an entry of a list of two
C17_Witness ==
    /\ reply.handler = "toggle-pin"
    /\ reply.ret
    /\ reply.again
    /\ Len(clipboardHistory) = 2
    /\ reply.before # clipboardHistory

\* C18: toggle-pin and delete-item called with an argument at which the list
\* has no entry return false and leave the list and the store unchanged.
C18_AbsentEntryIsNoOp ==
    [][(/\ reply'.handler \in {"toggle-pin", "delete-item"}
        /\ ~HasIndex(clipboardHistory, reply'.index))
       => /\ reply'.ret = FALSE
          /\ UNCHANGED <<clipboardHistory, storeHistory>>]_vars

\* delete-item has returned false on a list that has entries
C18_Witness ==
    /\ reply.handler = "delete-item"
    /\ reply.ret = FALSE
    /\ clipboardHistory # <<>>
    /\ storeHistory = clipboardHistory

\* pairs of a letter and its capital
CasePairs == { <<"a", "A">>, <<"b", "B">>, <<"c", "C">>, <<"p", "P">> }

SameLetter(x, y) == x = y \/ <<x, y>> \in CasePairs \/ <<y, x>> \in CasePairs

\* q occurs in content, letters compared without regard to case
ContainsIgnoringCase(content, q) ==
    \E i \in 0..(Len(content) - Len(q)) :
        \A j \in 1..Len(q) : SameLetter(content[i + j], q[j])

\* C19: search-history(q) returns exactly the entries whose content contains
\* q without regard to case, in stored order (none when nothing matches),
\* the whole list when q is empty, and leaves the history as it is.
C19_SearchExactMatches ==
    [][reply'.handler = "search-history" =>
          /\ reply'.result =
                 SelectSeq(clipboardHistory,
                           LAMBDA e : ContainsIgnoringCase(e.content, reply'.query))
          /\ reply'.query = <<>> => reply'.result = clipboardHistory
          /\ UNCHANGED <<clipboardHistory, storeHistory>>]_vars

\* a search in small letters that found the two entries written with
\* capitals and left out the third
C19_Witness ==
    /\ reply.handler = "search-history"
    /\ reply.query = <<"a", "b">>
    /\ Len(clipboardHistory) = 3
    /\ Len(reply.result) = 2
    /\ \A k \in 1..2 : ~includes(reply.result[k].content, reply.query)

\* C20: the list drawn has the entries of the list it was made from, all
\* pinned ones before all unpinned ones, the pinned ones in their stored
\* order and the unpinned ones in theirs.
C20_PinnedFirstOrderKept ==
    reply.handler = "renderClipboardHistory" =>
        /\ Len(reply.view) = Len(reply.result)
        /\ \A i, j \in DOMAIN reply.view :
               (i < j /\ reply.view[j].pinned) => reply.view[i].pinned
        /\ SelectSeq(reply.view, LAMBDA e : e.pinned)
               = SelectSeq(reply.result, LAMBDA e : e.pinned)
        /\ SelectSeq(reply.view, LAMBDA e : ~e.pinned)
               = SelectSeq(reply.result, LAMBDA e : ~e.pinned)

\* a list of an unpinned entry followed by two pinned ones, drawn with the
\* pinned ones first in their order
C20_Witness ==
    /\ reply.handler = "renderClipboardHistory"
    /\ Len(reply.result) = 3
    /\ ~reply.result[1].pinned
    /\ reply.result[2].pinned
    /\ reply.result[3].pinned
    /\ reply.view = <<reply.result[2], reply.result[3], reply.result[1]>>

\* C21: every notification leaves with the store already holding the list
\* it carries.
C21_StoreWrittenBeforeNotify ==
    \A k \in DOMAIN sent : sent[k].persisted = sent[k].history

\* a tick that changed a list of one entry into a list of two has notified
C21_Witness ==
    /\ Len(sent) = 1
    /\ Len(added) = 1
    /\ Len(sent[1].history) = 2
    /\ sent[1].persisted = sent[1].history
    /\ storeHistory = sent[1].history

\* C22: a toggleWindow call made while toggleInProgress is true changes
\* nothing: the window stays as it is, no show is left pending, no timer is
\* armed, the flag stays set.
C22_ToggleInFlightIgnored ==
    [][(toggleInProgress /\ reply'.handler = "toggleWindow")
       => UNCHANGED <<windowVisible, toggleInProgress, positioning, cooldowns>>]_vars

\* a second press while the first one's show is still being positioned
C22_Witness ==
    /\ reply.handler = "toggleWindow"
    /\ ~reply.ret
    /\ toggleInProgress
    /\ cooldowns = 1
    /\ positioning = 1
    /\ ~windowVisible

\* no glyph occurs twice in the list
NoDuplicate(list) == \A i, j \in DOMAIN list : list[i] = list[j] => i = j

\* C24: after every add-recent-emoji the stored list has no duplicate, is
\* no longer than the limit, has the added glyph at index 0 and behind it
\* the other glyphs in the order they had; re-adding a glyph of the list
\* keeps all the others.
C24_RecentEmojisUniqueBoundedFront ==
    [][reply'.handler = "add-recent-emoji" =>
          LET emoji == reply'.emoji
              others == SelectSeq(storeRecentEmojis, LAMBDA e : e # emoji)
              new == storeRecentEmojis'
          IN  /\ NoDuplicate(new)
              /\ Len(new) \in 1..MaxRecentEmojis
              /\ new[1] = emoji
              /\ Tail(new) = SubSeq(others, 1, Len(new) - 1)
              /\ Len(others) < Len(storeRecentEmojis) => Tail(new) = others
              /\ reply'.emojis = new]_vars

\* a full list whose glyph in front was just added
C24_Witness ==
    /\ reply.handler = "add-recent-emoji"
    /\ Len(storeRecentEmojis) = MaxRecentEmojis
    /\ storeRecentEmojis[1] = reply.emoji
    /\ NoDuplicate(storeRecentEmojis)

\* handlers that are no operation of the history engine
FrameHandlers ==
    { "paste-item", "paste-text", "copy-text", "copy-image", "search-history",
      "get-clipboard-history", "hide-window", "add-recent-emoji" }

\* C23: the handlers paste-item, paste-text, copy-text, copy-image,
\* search-history, get-clipboard-history, hide-window and add-recent-emoji,
\* and every step of a paste they started, leave the in-memory history and
\* the persisted one as they are.
C23_OtherHandlersKeepHistory ==
    [][(reply'.handler \in FrameHandlers \/ pastes' # pastes)
       => UNCHANGED <<clipboardHistory, storeHistory>>]_vars

\* copy-text has staged the text of an entry that is still in the history
C23_Witness ==
    /\ reply.handler = "copy-text"
    /\ osText = reply.item.content
    /\ \E i \in DOMAIN clipboardHistory :
           clipboardHistory[i].content = osText
    /\ storeHistory = clipboardHistory
    /\ storeRecentEmojis # <<>>

\* C25: when the persisted combination does not bind at start-up, the first
\* fallback in the fixed order that differs from it and binds is registered
\* and written to the store; when none binds the store keeps its value.
C25_FallbackFirstThatBinds ==
    [][(SetupGlobalShortcuts /\ accelerators[storeHotkey] # "free") =>
          LET binding == SelectSeq(Fallbacks,
                                   LAMBDA f : /\ f # storeHotkey
                                              /\ accelerators[f] = "free")
          IN  IF binding # <<>>
              THEN storeHotkey' = binding[1] /\ registered' = {binding[1]}
              ELSE storeHotkey' = storeHotkey /\ registered' = {}]_vars

\* The argument /bin/sh makes of the characters of one word: text between
\* single quotes is taken as it is, \c outside quotes is the character c.
\* Any other character outside quotes (a separator, an operator, the start
\* of an expansion) is not part of a literal: ok is FALSE.
RECURSIVE shellWord(_, _)
shellWord(chars, quoted) ==
    IF chars = <<>> THEN [ok |-> ~quoted, text |-> <<>>]
    ELSE IF quoted
    THEN IF Head(chars) = "'" THEN shellWord(Tail(chars), FALSE)
         ELSE LET rest == shellWord(Tail(chars), TRUE)
              IN  [rest EXCEPT !.text = <<Head(chars)>> \o @]
    ELSE IF Head(chars) = "'" THEN shellWord(Tail(chars), TRUE)
    ELSE IF Head(chars) = "\\" /\ Len(chars) > 1
    THEN LET rest == shellWord(Tail(Tail(chars)), FALSE)
         IN  [rest EXCEPT !.text = <<chars[2]>> \o @]
    ELSE [ok |-> FALSE, text |-> <<>>]

\* number of single quotes in a text
QuoteCount(str) == Cardinality({i \in DOMAIN str : str[i] = "'"})

\* C26: in every chain the clipboard text occurs only as the argument of the
\* type-text command, wrapped in single quotes with each embedded quote
\* written as the four characters '\'' : the shell reads the argument as one
\* literal word equal to the text; the other commands carry no content.
C26_InterpolatedTextEscaped ==
    \A k \in DOMAIN pastes :
        pastes[k].pc = "exec" =>
            LET chain == LogCommands(pastes[k].log) \o pastes[k].commands
                content == pastes[k].item.content
            IN  \A i \in DOMAIN chain :
                    IF CommandKind(chain[i]) = "type-text"
                    THEN LET arg == Tail(chain[i])
                         IN  /\ arg[1] = "'"
                             /\ arg[Len(arg)] = "'"
                             /\ Len(arg) = Len(content) + 2 + 3 * QuoteCount(content)
                             /\ shellWord(arg, FALSE) = [ok |-> TRUE, text |-> content]
                    ELSE Len(chain[i]) = 1

\* the chain of a text that has a single quote in it is running
C26_Witness ==
    \E k \in DOMAIN pastes :
        /\ pastes[k].pc = "exec"
        /\ pastes[k].item.type = "text"
        /\ QuoteCount(pastes[k].item.content) > 0
        /\ Len(pastes[k].commands) > 1

\* the pending pastes that are at one step of pasteItem
AtStep(ps, pc) == Cardinality({k \in DOMAIN ps : ps[k].pc = pc})

\* the pending pastes whose first injection command is running
FirstCommandRunning(ps) ==
    Cardinality({k \in DOMAIN ps : ps[k].pc = "exec" /\ ps[k].log = <<>>})

\* C27: the steps of one pasteItem come in order. A paste is pending only
\* once its content is on the OS clipboard and the picker is hidden; until
\* its delay has elapsed no command of it has been started; the window
\* activation is started only by the elapsed delay, under X11 with a
\* remembered window id; the first injection command is started only by the
\* elapsed delay (no activation due) or by the end of the activation.
C27_PasteStepsInOrder ==
    [][/\ \A k \in DOMAIN pastes' :
              pastes'[k].pc \in {"timer", "activate"} =>
                  pastes'[k].commands = <<>> /\ pastes'[k].log = <<>>
       /\ Len(pastes') > Len(pastes) =>
              /\ Len(pastes') = Len(pastes) + 1
              /\ pastes'[Len(pastes')].pc = "timer"
              /\ SubSeq(pastes', 1, Len(pastes)) = pastes
              /\ LET item == pastes'[Len(pastes')].item
                 IN  IF item.type = "image"
                     THEN /\ osImage' = createFromDataURL(item.content)
                          /\ osText' = <<>>
                     ELSE /\ osText' = item.content
                          /\ osImage' = EmptyImage
              /\ ~windowVisible'
       /\ AtStep(pastes', "activate") > AtStep(pastes, "activate") =>
              /\ AtStep(pastes', "timer") = AtStep(pastes, "timer") - 1
              /\ ~wayland
              /\ lastActiveWindowId # "null"
       /\ FirstCommandRunning(pastes') > FirstCommandRunning(pastes) =>
              \/ /\ AtStep(pastes', "timer") = AtStep(pastes, "timer") - 1
                 /\ AtStep(pastes', "activate") = AtStep(pastes, "activate")
                 /\ wayland \/ lastActiveWindowId = "null"
              \/ /\ AtStep(pastes', "activate") = AtStep(pastes, "activate") - 1
                 /\ AtStep(pastes', "timer") = AtStep(pastes, "timer")]_vars

\* the first injection command of a paste is running, its content staged and
\* the picker hidden
C27_Witness ==
    \E k \in DOMAIN pastes :
        /\ pastes[k].pc = "exec"
        /\ pastes[k].log = <<>>
        /\ Len(pastes[k].commands) > 0
        /\ Staged(pastes[k].item)
        /\ ~windowVisible

\* the text has a character that is not white space
NonBlank(text) == \E i \in DOMAIN text : text[i] \notin Whitespace

\* the addToHistory calls of a poller step that added a text entry
TextAdds ==
    {k \in DOMAIN sent' : /\ sent'[k].history # <<>>
                          /\ sent'[k].history[1].type = "text"}

\* C28: a poller tick adds a text entry (the current clipboard text, once,
\* before any image entry) and sets last-seen text to the current text
\* exactly when that text has a non-blank character and differs from
\* last-seen text; otherwise it adds no text entry and leaves last-seen text
\* as it is.
C28_TextAdmittedIffNewNonBlank ==
    [][(reply' = NoCall /\ osText' = osText /\ osImage' = osImage /\ Tick) =>
        IF NonBlank(osText) /\ osText # lastClipboardContent
        THEN /\ TextAdds = {1}
             /\ sent'[1].history[1].content = osText
             /\ lastClipboardContent' = osText
        ELSE /\ TextAdds = {}
             /\ lastClipboardContent' = lastClipboardContent]_vars

\* a tick has just added the clipboard text and made it the baseline
C28_Witness ==
    /\ Len(added) = 1
    /\ sent # <<>>
    /\ sent[1].history[1].type = "text"
    /\ sent[1].history[1].content = osText
    /\ lastClipboardContent = osText

\* the OS clipboard holds the last-seen text and no image
Quiet == osText = lastClipboardContent /\ isEmpty(osImage)

\* C29: a pasteItem call with text content equal to the last-seen text
\* leaves the clipboard holding the last-seen text and no image; from then
\* on, as long as nothing else writes the clipboard, that stays so and a
\* poller tick, during the paste or after it, adds no entry and leaves the
\* history and its order as they are.
C29_PasteOfLastSeenNotRecaptured ==
    [][/\ (/\ Len(pastes') > Len(pastes)
           /\ pastes'[Len(pastes')].item.type = "text"
           /\ pastes'[Len(pastes')].item.content = lastClipboardContent)
          => Quiet'
       /\ (Quiet /\ osText' = osText /\ osImage' = osImage)
          => /\ Quiet'
             /\ Tick => /\ clipboardHistory' = clipboardHistory
                        /\ storeHistory' = storeHistory
                        /\ added' = <<>>
                        /\ sent' = <<>>]_vars

\* the injection commands of a paste of the last-seen text are running, the
\* clipboard still as the paste staged it, the poller free to tick
C29_Witness ==
    /\ lastClipboardContent # <<>>
    /\ lastNow < StartTime + MaxClock
    /\ \E k \in DOMAIN pastes :
           /\ pastes[k].pc = "exec"
           /\ pastes[k].item.type = "text"
           /\ pastes[k].item.content = lastClipboardContent
           /\ Staged(pastes[k].item)

\* the addToHistory calls of a poller step that added an image entry
ImageAdds ==
    {k \in DOMAIN sent' : /\ sent'[k].history # <<>>
                          /\ sent'[k].history[1].type = "image"}

\* C30: on a poller tick the text channel adds an entry exactly when the
\* clipboard text is new and non-blank, whatever the image channel holds, and
\* the image channel adds one exactly when the clipboard image is non-empty,
\* new and long enough, whatever the text channel holds: zero, one or two
\* entries. When both add, the text is added first and the image entry is at
\* index 0 after the tick, the text entry right behind it if it is kept.
C30_ChannelsIndependent ==
    [][(reply' = NoCall /\ osText' = osText /\ osImage' = osImage /\ Tick) =>
        LET textNew == NonBlank(osText) /\ osText # lastClipboardContent
            imageNew == /\ osImage.n > 0
                        /\ toDataURL(osImage) # lastImageDataURL
                        /\ Len(toDataURL(osImage)) > MinImageURLLength
        IN  /\ (TextAdds # {}) = textNew
            /\ (ImageAdds # {}) = imageNew
            /\ Len(sent') = Cardinality(TextAdds) + Cardinality(ImageAdds)
            /\ Len(added') = Len(sent')
            /\ Len(sent') <= 2
            /\ (textNew /\ imageNew) =>
                   /\ TextAdds = {1}
                   /\ ImageAdds = {2}
                   /\ clipboardHistory'[1].type = "image"
                   /\ clipboardHistory'[1].content = toDataURL(osImage)
                   /\ \A i \in DOMAIN clipboardHistory' :
                          clipboardHistory'[i].content = osText => i = 2]_vars

\* one tick has added a text entry and an image entry
C30_Witness ==
    /\ Len(added) = 2
    /\ Len(sent) = 2
    /\ sent[1].history[1].type = "text"
    /\ clipboardHistory[1].type = "image"

\* C31: toggleWindow starts a show or hide sequence only when no show
\* sequence it started earlier is still waiting for its window position.
C31_NoSequenceDuringShow ==
    [][(reply'.handler = "toggleWindow" /\ reply'.ret) => positioning = 0]_vars

\* C32 as stated, for every toggleWindow call: made while the window is
\* visible it hides the window and returns with the flag false, made while
\* the window is hidden it returns with the flag true; the flag is cleared
\* after that only by the cooldown timer, and is always cleared in the end.
C32_EveryToggleHidesOrArms ==
    /\ [][reply'.handler = "toggleWindow" =>
            IF windowVisible
            THEN ~windowVisible' /\ ~toggleInProgress'
            ELSE toggleInProgress']_vars
    /\ [][(toggleInProgress /\ ~toggleInProgress') =>
            cooldowns' = cooldowns - 1]_vars
    /\ (toggleInProgress ~> ~toggleInProgress)

\* C32: a toggleWindow call that is not ignored by the debounce test, made
\* while the window is visible, hides it, arms no timer and returns with the
\* flag false; made while the window is hidden it arms the cooldown timer and
\* returns with the flag true. A flag that is true is cleared only by the
\* firing of a cooldown timer, which leaves it false, and a true flag always
\* becomes false again.
C32_ToggleFlagLifecycle ==
    /\ [][(reply'.handler = "toggleWindow" /\ reply'.ret) =>
            IF windowVisible
            THEN /\ ~windowVisible'
                 /\ ~toggleInProgress'
                 /\ cooldowns' = cooldowns
            ELSE /\ toggleInProgress'
                 /\ cooldowns' = cooldowns + 1]_vars
    /\ [][(toggleInProgress /\ ~toggleInProgress') =>
            cooldowns' = cooldowns - 1]_vars
    /\ [][cooldowns' < cooldowns => ~toggleInProgress']_vars
    /\ (toggleInProgress ~> ~toggleInProgress)

\* a press that got past the debounce test has just hidden the picker
C32_Witness ==
    /\ reply.handler = "toggleWindow"
    /\ reply.ret
    /\ ~windowVisible
    /\ ~toggleInProgress
    /\ cooldowns = 0
    /\ positioning = 0

\* C33: whenever no history operation is under way (start-up done, every
\* addToHistory, toggle-pin, delete-item and clear-history run to its end)
\* the list in the store is the list in memory, entry for entry.
C33_StoreEqualsMemory ==
    /\ Len(storeHistory) = Len(clipboardHistory)
    /\ \A i \in DOMAIN clipboardHistory : storeHistory[i] = clipboardHistory[i]

\* a toggle-pin has just pinned an entry of a list of two
C33_Witness ==
    /\ reply.handler = "toggle-pin"
    /\ reply.ret
    /\ Len(clipboardHistory) = 2
    /\ PinnedCount(clipboardHistory) > PinnedCount(reply.before)
    /\ PinnedCount(storeHistory) = PinnedCount(clipboardHistory)

\* C34: a run of the poller callback in which a clipboard read fails adds no
\* entry, leaves the history, the store and both last-seen values as they
\* were, and leaves the interval running.
C34_ReadFailureChangesNothing ==
    [][reply'.handler = "clipboard-watcher" =>
        /\ added' = <<>>
        /\ UNCHANGED <<clipboardHistory, storeHistory, lastClipboardContent,
                       lastImageDataURL>>
        /\ clipboardWatcher']_vars

\* C35: from the before-quit event on the interval is cleared and no run of
\* the poller callback takes place: no entry is added, the last-seen values
\* and the clock reading stay, and the history changes only through a
\* handler; once will-quit has been handled no accelerator is registered.
C35_QuitStopsPollerAndHotkey ==
    /\ [][isQuitting =>
            /\ added' = <<>>
            /\ reply'.handler # "clipboard-watcher"
            /\ UNCHANGED <<lastClipboardContent, lastImageDataURL, lastNow>>
            /\ clipboardHistory' # clipboardHistory =>
                   reply'.handler = "clear-history"]_vars
    /\ [](isQuitting => ~clipboardWatcher)
    /\ [](exited => registered = {})

\* the process has ended with a clipboard text on the OS clipboard that the
\* poller never saw
C35_Witness ==
    /\ exited
    /\ isQuitting
    /\ registered = {}
    /\ NonBlank(osText)
    /\ osText # lastClipboardContent
    /\ \A i \in DOMAIN clipboardHistory : clipboardHistory[i].content # osText

\* C36: after every addToHistory call of the poller the entry at index 0 is
\* the captured content, unpinned, and no other entry has that content; so a
\* pinned entry with the captured content is gone and its content is back at
\* the head without the pin.
C36_AddedEntryUnpinnedAtHead ==
    [][(added' # <<>> /\ Tick) =>
        LET adds == TickAdds
        IN  \A k \in DOMAIN adds :
                /\ adds[k].after[1].content = adds[k].content
                /\ ~adds[k].after[1].pinned
                /\ \A i \in DOMAIN adds[k].after :
                       adds[k].after[i].content = adds[k].content => i = 1
                /\ \A i \in DOMAIN adds[k].before :
                       (/\ adds[k].before[i].pinned
                        /\ adds[k].before[i].content = adds[k].content)
                       => ~In(adds[k].before[i], adds[k].after)]_vars

\* a tick has just re-captured the content of a pinned entry
C36_Witness ==
    /\ Len(added) = 1
    /\ added[1].removedPinned = 1
    /\ ~clipboardHistory[1].pinned
    /\ clipboardHistory[1].content = osText

\* C37: the list every addToHistory call leaves is at most maxItems long,
\* pinned entries counted, and no toggle-pin, delete-item or clear-history
\* call leaves a list longer than it found.
C37_LengthBounded ==
    [][/\ (added' # <<>> /\ Tick) =>
              \A k \in DOMAIN sent' : Len(sent'[k].history) <= MaxItems
       /\ reply'.handler \in {"toggle-pin", "delete-item", "clear-history"} =>
              Len(clipboardHistory') <= Len(clipboardHistory)]_vars

\* an addToHistory call has just dropped a pinned entry to keep the limit
C37_Witness ==
    /\ Len(added) = 1
    /\ added[1].droppedPinned = 1
    /\ added[1].removed = 0
    /\ Len(clipboardHistory) = MaxItems

Forgotten ==
    /\ NonBlank(lastClipboardContent)
    /\ \A i \in DOMAIN clipboardHistory :
           clipboardHistory[i].content # lastClipboardContent

\* C39: delete-item and clear-history leave the last-seen text as it is; and
\* once the history holds no entry for the last-seen text, no step (tick,
\* copy in another application, handler call) brings that text back into the
\* history as long as the last-seen text stays the same, that is until a
\* tick admits a different text.
C39_RemovedLastSeenNotReadded ==
    [][/\ reply'.handler \in {"delete-item", "clear-history"} =>
              lastClipboardContent' = lastClipboardContent
       /\ (Forgotten /\ lastClipboardContent' = lastClipboardContent) =>
              Forgotten'
       /\ lastClipboardContent' # lastClipboardContent =>
              /\ TextAdds = {1}
              /\ sent'[1].history[1].content = lastClipboardContent']_vars

\* the entry of the last-seen text was removed, the clipboard holds that
\* text, and the poller or another application has acted since
C39_Witness ==
    /\ Forgotten
    /\ osText = lastClipboardContent
    /\ reply.handler = "none"
    /\ lastNow > StartTime
    /\ \A i \in DOMAIN storeHistory :
           storeHistory[i].content # lastClipboardContent

\* both last-seen values are what the OS clipboard holds
AtBaseline ==
    /\ lastClipboardContent = osText
    /\ lastImageDataURL = IF osImage.n = 0 THEN <<>> ELSE toDataURL(osImage)

\* C40: when the watcher has started, the last-seen values are the text and
\* the image on the OS clipboard; and a tick that finds the clipboard as the
\* watcher read it, no tick having admitted anything before, adds no entry
\* and leaves history, store and last-seen values as they are.
C40_StartupClipboardIsBaseline ==
    /\ AtBaseline
    /\ [][(lastNow = StartTime /\ AtBaseline /\ Tick) =>
            /\ added' = <<>>
            /\ sent' = <<>>
            /\ UNCHANGED <<clipboardHistory, storeHistory,
                           lastClipboardContent, lastImageDataURL>>]_vars

\* the first tick that added anything found a new image next to the text
\* that was there at start-up: it added the image and not the text
C40_Witness ==
    /\ lastNow = StartTime + 1
    /\ Len(added) = 1
    /\ NonBlank(osText)
    /\ osText = lastClipboardContent
    /\ Len(clipboardHistory) = 1
    /\ clipboardHistory[1].type = "image"

====
